---------------------------- MODULE Spec2Model ----------------------------
(***************************************************************************)
(* A model of the client-side persistence layer of the StreamList app     *)
(* (src/unnamed/part_001, the latest revision of src/App.js):             *)
(*   - useEventLog: the bounded event log kept in localStorage,           *)
(*   - Movies: the TTL cache and cancellable fetch of the catalog page,   *)
(*   - useLocalStorage: debounced writes and cross-tab synchronisation,   *)
(*   - HomeStreamList: the list handlers that use both hooks.             *)
(*                                                                         *)
(* A localStorage slot holds a string or nothing.  A slot is modelled by  *)
(* what JSON.parse makes of its content: a record whose field k says      *)
(* which kind of content it is, so that parsing, truthiness and spreading *)
(* are decided as JavaScript decides them.                                 *)
(***************************************************************************)
EXTENDS Integers, Sequences, FiniteSets, TLC

VARIABLES
    \* ---- localStorage, shared by every context of the origin
    eventsSlot,     \* "streamlist.events"
    cacheSlot,      \* "streamlist.tmdb.popular.v2"
    itemsSlot,      \* "streamlist.items"
    filterSlot,     \* "streamlist.filter"
    \* ---- opaque sources of fresh values
    nextId,         \* the next value uuid() returns
    now,            \* Date.now()
    \* ---- useEventLog
    lg,             \* the last call of log: what it read, built and did
    rc,             \* per context: a call of log between getItem and setItem
    \* ---- Movies
    hasKey,         \* process.env.REACT_APP_TMDB_API_KEY is set
    inst,           \* the instances of Movies, one per page-enter
    \* ---- useLocalStorage("streamlist.items", [], {debounce: 200})
    initialValue,   \* the hook's initialValue
    live,           \* the contexts (tabs) that exist in this run
    mounted,        \* per context: the consumer is mounted
    val,            \* per context: the hook's state `value`
    timer,          \* per context: the pending setTimeout(write) calls, oldest
                    \* first, each by what changed the value it is to write
    queue,          \* per context: storage events not yet dispatched
    st,             \* the run so far: local updates made (n), by whom (who);
                    \* mounts (m); a write was refused (failed); writes from
                    \* outside (f); the keys and areas, other than the
                    \* watched ones, of the notifications dispatched (seen);
                    \* per context, the "storage" listeners the hook has
                    \* on the window (reg); a notification was dispatched
                    \* while it had none (late)
    \* ---- HomeStreamList
    title,          \* the composer's input
    editingId,      \* the item being edited, or NoId
    editingText,    \* the edit box
    filter,         \* the filter mode (in memory)
    hs              \* the last handler: which, the id it was called with (arg),
                    \* whether it raised, whether the storage engine refused
                    \* its log write; handlers so far (n)

logVars   == <<eventsSlot, nextId, lg, rc>>
movieVars == <<cacheSlot, now, hasKey, inst>>
storeVars == <<itemsSlot, initialValue, live, mounted, val, timer, queue, st>>
listVars  == <<filterSlot, title, editingId, editingText, filter, hs>>
vars      == <<logVars, movieVars, storeVars, listVars>>

(***************************************************************************)
(* Bounds of the model.                                                    *)
(***************************************************************************)
MaxAppends == 3         \* calls of log in one run of the event-log model
MaxRaceAppends == 3     \* calls of log in one run of the two-context model
MaxEnters == 2          \* page-enters of the catalog view in one run
MaxTicks == 1           \* times the clock is moved in one run
MaxResults == 1         \* entries in a response's result list
MaxVal == 1             \* distinct collections besides the empty one
MaxUpdates == 2         \* local updates (setValue by the consumer) in one run
MaxMounts == 3          \* times a consumer of the list slot mounts in one run
MaxOps == 3             \* handler calls of the list view in one run
MaxItems == 3           \* items of a stored collection when the page loads
MaxForeign == 1         \* writes by programs other than the modelled contexts

Min(a, b) == IF a < b THEN a ELSE b

(***************************************************************************)
(* useEventLog (part_001:58-72).                                           *)
(*                                                                         *)
(* The slot's content, by kind:                                            *)
(*   "none"   no item (getItem returns null)                               *)
(*   "bad"    text JSON.parse rejects                                      *)
(*   "falsy"  JSON for null, false, 0 or ""                                *)
(*   "obj"    JSON for a truthy value that is not iterable ({}, 5, true)   *)
(*   "str"    JSON for a non-empty string; v holds its characters          *)
(*   "arr"    JSON for an array; v holds its elements                      *)
(* An element of v is a record [id, type, payload]; an entry's ts is the   *)
(* clock's and plays no part in any decision of the code.                  *)
(***************************************************************************)
LogCap == 1000

NoPayload == [s |-> "", n |-> 0]
Payload(s, n) == [s |-> s, n |-> n]

Entry(id, type, payload) == [id |-> id, type |-> type, payload |-> payload]

Raw(k, v) == [k |-> k, v |-> v]

\* A character of a stored string, as an element that [entry, ...events] copies.
Char == Entry(0, "char", NoPayload)

\* id: uuid(), line 7-9: a value no earlier call returned.
uuid == nextId

\* events = JSON.parse(localStorage.getItem(key)) || []  with its catch: the
\* value `events` holds when line 67 is reached.
EventsRead(raw) ==
    IF raw.k \in {"none", "bad", "falsy"} THEN Raw("arr", <<>>) ELSE raw

\* s.slice(0, n)
Slice(s, n) == SubSeq(s, 1, Min(n, Len(s)))

\* [entry, ...events]: spreading throws a TypeError unless events is iterable.
Spreadable(ev) == ev.k \in {"arr", "str"}

\* The same without the cap.
LogNext_NoSlice(entry, ev) == <<entry>> \o ev.v

\* const next = [entry, ...events].slice(0, 1000)
LogNext(entry, ev) == Slice(<<entry>> \o ev.v, LogCap)

\* Lines 67-69 on the value `events` read earlier: the slot afterwards, and
\* whether the call raised (the spread's TypeError, or setItem's
\* QuotaExceededError when the storage engine refuses the write: `quota`).
LogWrite(raw, ev, entry, quota) ==
    IF ~Spreadable(ev) THEN [raised |-> TRUE, slot |-> raw]
    ELSE IF quota THEN [raised |-> TRUE, slot |-> raw]
    ELSE [raised |-> FALSE, slot |-> Raw("arr", LogNext(entry, ev))]

\* One whole call log(type, payload) in a context that nothing interrupts.
log(raw, entry, quota) == LogWrite(raw, EventsRead(raw), entry, quota)

\* What the models that do not use a component hold in its variables.
NoId == 0
NoEntry == Entry(0, "", NoPayload)
LgInit == [op |-> "init", raised |-> FALSE, quota |-> FALSE,
           prev |-> Raw("none", <<>>), entry |-> NoEntry, done |-> {}, n |-> 0]
Ctx == {1, 2}
RcIdle == [c \in Ctx |-> [pc |-> "idle", ev |-> Raw("arr", <<>>), entry |-> NoEntry]]
CacheNone == [k |-> "none", ts |-> 0, ok |-> FALSE, data |-> <<>>]

StInit == [n |-> 0, who |-> {}, failed |-> FALSE, m |-> 0, f |-> 0, seen |-> {},
           reg |-> [c \in Ctx |-> 0], late |-> FALSE]

HsInit == [op |-> "init", arg |-> NoId, raised |-> FALSE, quota |-> FALSE, n |-> 0]

LogIdle ==
    /\ eventsSlot = Raw("none", <<>>)
    /\ nextId = 1
    /\ lg = LgInit
    /\ rc = RcIdle

MovieIdle ==
    /\ cacheSlot = CacheNone
    /\ now = 0
    /\ hasKey = FALSE
    /\ inst = <<>>

StoreIdle ==
    /\ itemsSlot = Raw("none", 0)
    /\ initialValue = 0
    /\ live = {}
    /\ mounted = [c \in Ctx |-> FALSE]
    /\ val = [c \in Ctx |-> 0]
    /\ timer = [c \in Ctx |-> <<>>]
    /\ queue = [c \in Ctx |-> <<>>]
    /\ st = StInit

ListIdle ==
    /\ filterSlot = Raw("none", "all")
    /\ title = ""
    /\ editingId = NoId
    /\ editingText = ""
    /\ filter = "all"
    /\ hs = HsInit

(***************************************************************************)
(* The event log alone: one context calling log again and again, from any *)
(* content of the slot.                                                    *)
(***************************************************************************)
Seed(n) == [i \in 1..n |-> Entry(i, "seed", NoPayload)]

\* What the slot may hold when the page loads: nothing, a log the code wrote
\* (up to the cap), or content that is not a log.
SeedSlots ==
    {Raw("arr", Seed(n)) : n \in {0, 1, LogCap - 1, LogCap}}
    \cup {Raw(k, <<>>) : k \in {"none", "bad", "falsy", "obj"}}
    \cup {Raw("str", <<Char, Char>>)}

LogTypes == {"page_view", "item_add"}

InitLog ==
    /\ eventsSlot \in SeedSlots
    /\ nextId = LogCap + 1
    /\ lg = LgInit
    /\ rc = RcIdle
    /\ MovieIdle /\ StoreIdle /\ ListIdle

\* log(type, payload), lines 59-70, run to completion.
LogAppend(type, quota) ==
    /\ lg.n < MaxAppends
    /\ LET entry == Entry(uuid, type, NoPayload)
           r == log(eventsSlot, entry, quota)
       IN /\ eventsSlot' = r.slot
          /\ lg' = [op |-> "log", raised |-> r.raised, quota |-> quota,
                    prev |-> eventsSlot, entry |-> entry,
                    done |-> IF r.raised THEN lg.done ELSE lg.done \cup {entry.id},
                    n |-> lg.n + 1]
    /\ nextId' = nextId + 1
    /\ UNCHANGED <<rc, movieVars, storeVars, listVars>>

NextLog == \E type \in LogTypes, quota \in BOOLEAN : LogAppend(type, quota)

SpecLog == InitLog /\ [][NextLog]_vars

\* The slot holds a list JSON.parse returns as an array.
IsLog(raw) == raw.k = "arr"
\* The entries a reader gets from the slot when it holds a log or nothing.
Stored(raw) == IF raw.k = "arr" THEN raw.v ELSE <<>>

\* C1: after any calls of log from a stored log or a missing one, the stored
\* log is never longer than the cap, and right after a call returns, the
\* stored log is the entry it built followed by the entries stored before, in
\* their order, cut to the cap.
C1_CapAndNewestFirst ==
    /\ IsLog(eventsSlot) => Len(eventsSlot.v) <= LogCap
    /\ (lg.op = "log" /\ ~lg.raised /\ lg.prev.k \in {"arr", "none"}) =>
          /\ IsLog(eventsSlot)
          /\ eventsSlot.v[1] = lg.entry
          /\ Len(eventsSlot.v) = Min(Len(Stored(lg.prev)) + 1, LogCap)
          /\ \A i \in 2..Len(eventsSlot.v) : eventsSlot.v[i] = Stored(lg.prev)[i - 1]

\* A call returned on a log already at the cap: the oldest entry was dropped.
C1_Witness ==
    /\ lg.op = "log" /\ ~lg.raised
    /\ IsLog(lg.prev) /\ Len(lg.prev.v) = LogCap
    /\ lg.n >= 2

\* C10: for any content of the slot that is not an entry list (none, text
\* that does not parse, JSON that is not a list), a call of log whose write
\* the storage engine accepts returns without raising and leaves a stored
\* log of exactly the new entry.
C10_CorruptLogReadAsEmpty ==
    (lg.op = "log" /\ ~lg.quota /\ ~IsLog(lg.prev)) =>
        /\ ~lg.raised
        /\ IsLog(eventsSlot)
        /\ eventsSlot.v = <<lg.entry>>

\* A call of log broke on a stored JSON object: the spread raised.
C10_Witness == lg.op = "log" /\ lg.prev.k = "obj" /\ lg.raised /\ ~lg.quota

(***************************************************************************)
(* The event log written by two contexts (tabs).  Inside one context a    *)
(* call of log runs to completion; localStorage gives no lock across      *)
(* contexts, so another context's getItem or setItem may fall between the *)
(* getItem of line 63 and the setItem of line 69.                          *)
(***************************************************************************)
InitRace ==
    /\ eventsSlot \in {Raw("none", <<>>), Raw("arr", Seed(1)), Raw("arr", Seed(LogCap))}
    /\ nextId = LogCap + 1
    /\ lg = LgInit
    /\ rc = RcIdle
    /\ MovieIdle /\ StoreIdle /\ ListIdle

\* Lines 60-67 in context c: the log is read and the entry built.
RaceRead(c, type) ==
    /\ rc[c].pc = "idle"
    /\ lg.n < MaxRaceAppends
    /\ rc' = [rc EXCEPT ![c] = [pc |-> "read", ev |-> EventsRead(eventsSlot),
                                entry |-> Entry(uuid, type, NoPayload)]]
    /\ nextId' = nextId + 1
    /\ lg' = [lg EXCEPT !.n = lg.n + 1]
    /\ UNCHANGED <<eventsSlot, movieVars, storeVars, listVars>>

\* Lines 68-69 in context c: the new log is built from what was read and
\* written over whatever the slot holds by now.
RaceWrite(c, quota) ==
    /\ rc[c].pc = "read"
    /\ LET r == LogWrite(eventsSlot, rc[c].ev, rc[c].entry, quota)
       IN /\ eventsSlot' = r.slot
          /\ lg' = [lg EXCEPT !.op = "log", !.raised = r.raised, !.quota = quota,
                              !.prev = eventsSlot, !.entry = rc[c].entry,
                              !.done = IF r.raised THEN lg.done
                                       ELSE lg.done \cup {rc[c].entry.id}]
    /\ rc' = [rc EXCEPT ![c] = RcIdle[c]]
    /\ UNCHANGED <<nextId, movieVars, storeVars, listVars>>

NextRace ==
    \/ \E c \in Ctx, type \in LogTypes : RaceRead(c, type)
    \/ \E c \in Ctx, quota \in BOOLEAN : RaceWrite(c, quota)

SpecRace == InitRace /\ [][NextRace]_vars

HasEntry(raw, id) == \E i \in DOMAIN Stored(raw) : Stored(raw)[i].id = id

\* C8: with two contexts appending, an entry whose call of log has returned
\* is in the stored log every later reader sees, unless the cap has
\* displaced it, and no reader sees a log longer than the cap.
C8_NoAppendLost ==
    /\ Len(Stored(eventsSlot)) <= LogCap
    /\ \A id \in lg.done :
          HasEntry(eventsSlot, id) \/ Len(Stored(eventsSlot)) = LogCap

(***************************************************************************)
(* Movies (part_001:342-394): the catalog view.                            *)
(*                                                                         *)
(* The cache slot, by kind: "none" (no item), "bad" (text JSON.parse      *)
(* rejects), "env" (an object; ts is its ts field, 0 when the field is     *)
(* missing or 0; ok says its data field is truthy; data is the list).      *)
(* A catalog entry is a number; a view state is {loading, error, data}.    *)
(***************************************************************************)
CACHE_TTL_MS == 1000 * 60 * 60

\* Date.now() when the run starts: any time more than a TTL after the epoch.
T0 == 3 * CACHE_TTL_MS

Env(ts, data) == [k |-> "env", ts |-> ts, ok |-> TRUE, data |-> data]

View(loading, error, data) == [loading |-> loading, error |-> error, data |-> data]

\* useState({ loading: true, error: null, data: [] }), line 344
ViewInitial == View(TRUE, "null", <<>>)

KeyMissing == "TMDB API key missing"

\* Lines 355-360: JSON.parse threw nothing and
\* cached && cached.ts && cached.data && Date.now() - cached.ts < CACHE_TTL_MS
Fresh(cached, t) ==
    /\ cached.k = "env"
    /\ cached.ts # 0
    /\ cached.ok
    /\ t - cached.ts < CACHE_TTL_MS

\* An instance of Movies: one page-enter.
\*   mounted   the component is mounted
\*   view      its state
\*   pc        where its async function is: "none" (never started), "fetch"
\*             (awaiting fetch), "json" (awaiting res.json()), "done"
\*   aborted   ac.signal.aborted
\*   fresh     the cache was fresh at page-enter
\*   requested fetch was called
\*   crashed   the effect threw
\*   at        where the async function was when the view was torn down
\*   parsed    res.json() resolved
Instance(view, pc, fresh, requested, crashed) ==
    [mounted |-> ~crashed, view |-> view, pc |-> pc, aborted |-> FALSE,
     fresh |-> fresh, requested |-> requested, crashed |-> crashed, at |-> "",
     parsed |-> FALSE]

\* The effect of lines 351-394 up to its first await, on the state it finds.
\*   raised: log("page_view") raised and the effect ended there (line 352)
EffectOutcome(raised, cached, t, key) ==
    LET fresh == Fresh(cached, t)
        \* lines 357-359
        v1 == IF fresh THEN View(FALSE, "null", cached.data) ELSE ViewInitial
    IN IF raised THEN Instance(ViewInitial, "none", fresh, FALSE, TRUE)
       \* lines 362-369
       ELSE IF ~key THEN Instance(View(FALSE, KeyMissing, <<>>), "none", fresh, FALSE, FALSE)
       \* lines 371-379: setState((s) => ({ ...s, loading: true, error: null })), fetch
       ELSE Instance([v1 EXCEPT !.loading = TRUE, !.error = "null"], "fetch", fresh, TRUE, FALSE)

NoneMounted == \A i \in DOMAIN inst : ~inst[i].mounted

\* Page-enter: the component mounts and its effect runs.
PageEnter(quota) ==
    /\ Len(inst) < MaxEnters
    /\ NoneMounted
    /\ LET r == log(eventsSlot, Entry(uuid, "page_view", Payload("movies", 0)), quota)
       IN /\ eventsSlot' = r.slot
          /\ inst' = Append(inst, EffectOutcome(r.raised, cacheSlot, now, hasKey))
    /\ nextId' = nextId + 1
    /\ UNCHANGED <<lg, rc, cacheSlot, now, hasKey, storeVars, listVars>>

\* The catch block without its test of the abort signal.
Caught_NoAbortCheck(in, msg, ev, id, quota) ==
    [in |-> [in EXCEPT !.pc = "done", !.view = View(FALSE, msg, <<>>)],
     ev |-> log(ev, Entry(id, "tmdb_fetch_error", Payload(msg, 0)), quota).slot]

\* The catch block of lines 386-390 for instance `in`, entered with the error
\* message msg: the instance and the event log afterwards.
Caught(in, msg, ev, id, quota) ==
    IF in.aborted THEN [in |-> [in EXCEPT !.pc = "done"], ev |-> ev]
    ELSE [in |-> [in EXCEPT !.pc = "done", !.view = View(FALSE, msg, <<>>)],
          ev |-> log(ev, Entry(id, "tmdb_fetch_error", Payload(msg, 0)), quota).slot]

Catch(i, msg, quota) ==
    LET c == Caught(inst[i], msg, eventsSlot, uuid, quota)
    IN /\ inst' = [inst EXCEPT ![i] = c.in]
       /\ eventsSlot' = c.ev
       /\ nextId' = nextId + 1

Awaiting(i, pc) == i \in DOMAIN inst /\ inst[i].pc = pc

\* The response arrives (line 376 resumes): !res.ok throws, otherwise
\* res.json() is awaited.  An aborted fetch never resolves.
FetchResolve(i, ok, quota) ==
    /\ Awaiting(i, "fetch") /\ ~inst[i].aborted
    /\ IF ok
         THEN /\ inst' = [inst EXCEPT ![i].pc = "json"]
              /\ UNCHANGED <<eventsSlot, nextId>>
         ELSE Catch(i, "TMDB error", quota)
    /\ UNCHANGED <<lg, rc, cacheSlot, now, hasKey, storeVars, listVars>>

\* The request fails (no network): fetch rejects.
FetchReject(i, quota) ==
    /\ Awaiting(i, "fetch") /\ ~inst[i].aborted
    /\ Catch(i, "Failed to fetch", quota)
    /\ UNCHANGED <<lg, rc, cacheSlot, now, hasKey, storeVars, listVars>>

\* The body is not JSON: res.json() rejects.
JsonReject(i, quota) ==
    /\ Awaiting(i, "json") /\ ~inst[i].aborted
    /\ Catch(i, "Unexpected token", quota)
    /\ UNCHANGED <<lg, rc, cacheSlot, now, hasKey, storeVars, listVars>>

\* Array.isArray(json?.results) ? json.results : [], line 382, for a body
\* whose results field is the list `results` when isList and anything else
\* (absent included) otherwise.
ResultList(isList, results) == IF isList THEN results ELSE <<>>

Bodies == {<<TRUE, [j \in 1..n |-> j]>> : n \in 0..MaxResults} \cup {<<FALSE, <<>>>>}

\* The body is parsed (line 381 resumes): lines 382-385, and the catch block
\* when the cache write (quotaCache) or log (quotaLog) raises.
JsonResolve(i, body, quotaCache, quotaLog) ==
    /\ Awaiting(i, "json") /\ ~inst[i].aborted
    /\ LET list == ResultList(body[1], body[2])
           ready == [inst[i] EXCEPT !.view = View(FALSE, "null", list),
                                    !.parsed = TRUE]
           r == log(eventsSlot, Entry(uuid, "tmdb_fetch_success", Payload("count", Len(list))), quotaLog)
       IN IF quotaCache
            THEN LET c == Caught(ready, "QuotaExceededError", eventsSlot, uuid, quotaLog)
                 IN /\ inst' = [inst EXCEPT ![i] = c.in]
                    /\ eventsSlot' = c.ev
                    /\ nextId' = nextId + 1
                    /\ UNCHANGED cacheSlot
            ELSE /\ cacheSlot' = Env(now, list)
                 /\ IF r.raised
                      THEN LET c == Caught(ready, "log raised", r.slot, uuid + 1, quotaLog)
                           IN /\ inst' = [inst EXCEPT ![i] = c.in]
                              /\ eventsSlot' = c.ev
                              /\ nextId' = nextId + 2
                      ELSE /\ inst' = [inst EXCEPT ![i] = [ready EXCEPT !.pc = "done"]]
                           /\ eventsSlot' = r.slot
                           /\ nextId' = nextId + 1
    /\ UNCHANGED <<lg, rc, now, hasKey, storeVars, listVars>>

\* The view is torn down: the effect's cleanup, () => ac.abort(), when the
\* effect returned one (line 393).
Teardown(i) ==
    /\ i \in DOMAIN inst /\ inst[i].mounted
    /\ inst' = [inst EXCEPT ![i].mounted = FALSE,
                            ![i].aborted = inst[i].requested,
                            ![i].at = inst[i].pc]
    /\ UNCHANGED <<logVars, cacheSlot, now, hasKey, storeVars, listVars>>

\* The awaited promise of an aborted fetch rejects with an AbortError and
\* the catch block runs.
AbortSettle(i, quota) ==
    /\ i \in DOMAIN inst /\ inst[i].pc \in {"fetch", "json"} /\ inst[i].aborted
    /\ Catch(i, "AbortError", quota)
    /\ UNCHANGED <<lg, rc, cacheSlot, now, hasKey, storeVars, listVars>>

\* The clock has been moved this many times (by 1 ms or by a TTL).
Ticks == ((now - T0) \div CACHE_TTL_MS) + ((now - T0) % CACHE_TTL_MS)

\* Time passes.
Tick(d) ==
    /\ Ticks < MaxTicks
    /\ now' = now + d
    /\ UNCHANGED <<logVars, cacheSlot, hasKey, inst, storeVars, listVars>>

\* The cache slot when the run starts: nothing, text that does not parse, or
\* an envelope written TTL-1, TTL or TTL+1 ms ago, or one without a ts.
SeedCaches ==
    {CacheNone, [CacheNone EXCEPT !.k = "bad"], Env(0, <<7>>)}
    \cup {Env(T0 - age, <<7>>) : age \in {CACHE_TTL_MS - 1, CACHE_TTL_MS, CACHE_TTL_MS + 1}}

InitMovies ==
    /\ eventsSlot \in {Raw("none", <<>>), Raw("obj", <<>>)}
    /\ nextId = 1
    /\ lg = LgInit
    /\ rc = RcIdle
    /\ cacheSlot \in SeedCaches
    /\ now = T0
    /\ hasKey \in BOOLEAN
    /\ inst = <<>>
    /\ StoreIdle /\ ListIdle

NextMovies ==
    \/ \E quota \in BOOLEAN : PageEnter(quota)
    \/ \E i \in 1..MaxEnters, ok \in BOOLEAN, quota \in BOOLEAN : FetchResolve(i, ok, quota)
    \/ \E i \in 1..MaxEnters, quota \in BOOLEAN : FetchReject(i, quota)
    \/ \E i \in 1..MaxEnters, quota \in BOOLEAN : JsonReject(i, quota)
    \/ \E i \in 1..MaxEnters, body \in Bodies, qc \in BOOLEAN, ql \in BOOLEAN :
          JsonResolve(i, body, qc, ql)
    \/ \E i \in 1..MaxEnters : Teardown(i)
    \/ \E i \in 1..MaxEnters, quota \in BOOLEAN : AbortSettle(i, quota)
    \/ \E d \in {1, CACHE_TTL_MS} : Tick(d)

SpecMovies == InitMovies /\ [][NextMovies]_vars

\* C2: on a page-enter with the credential present (and an effect that ran
\* to its end), a request is issued if and only if the cache holds no fresh
\* envelope.
C2_RequestIffNoFreshCache ==
    \A i \in DOMAIN inst :
        (hasKey /\ ~inst[i].crashed) => (inst[i].requested <=> ~inst[i].fresh)

\* C3: with the credential absent, a page-enter ends in Error, naming the
\* missing credential, not loading, with empty data, fresh cache or not, and
\* no request is issued.
C3_NoKeyEndsInError ==
    \A i \in DOMAIN inst :
        ~hasKey => /\ inst[i].view = View(FALSE, KeyMissing, <<>>)
                   /\ ~inst[i].requested

\* With the credential absent, a page-enter whose log("page_view") returned
\* ends in Error and issues no request.
NoKeyEndsInErrorUnlessLogRaised ==
    \A i \in DOMAIN inst :
        (~hasKey /\ ~inst[i].crashed) => /\ inst[i].view = View(FALSE, KeyMissing, <<>>)
                                         /\ ~inst[i].requested

\* C4: once a view is torn down with its fetch not yet handled, that fetch
\* changes no view state, and the step that handles its completion appends
\* no event and writes no cache envelope.
C4_NothingAfterTeardown ==
    [][\A i \in DOMAIN inst :
         inst[i].aborted =>
            /\ inst'[i].view = inst[i].view
            /\ (inst'[i].pc # inst[i].pc) =>
                   (eventsSlot' = eventsSlot /\ cacheSlot' = cacheSlot)]_vars

\* A view was torn down while res.json() was awaited, and the completion of
\* its fetch has been handled since.
C4_Witness ==
    \E i \in DOMAIN inst :
        inst[i].aborted /\ inst[i].at = "json" /\ inst[i].pc = "done"

\* C16: on a page-enter with the credential and a fresh cache envelope, the
\* view of that page-enter is never Loading and never Error.
C16_FreshCacheStaysReady ==
    \A i \in DOMAIN inst :
        (hasKey /\ inst[i].fresh /\ ~inst[i].crashed) =>
            (~inst[i].view.loading /\ inst[i].view.error = "null")

\* C17: when the body of the response has been parsed, the view is Ready
\* (not loading, no error), whether or not the cache write and the event
\* append succeed; a cache write leaves the envelope of now and the list the
\* view shows, and an event appended is one success event with the length
\* of that list.
C17_SuccessEndsReady ==
    [][\A i \in DOMAIN inst :
         (~inst[i].parsed /\ inst'[i].parsed) =>
            LET v == inst'[i].view
            IN /\ ~v.loading /\ v.error = "null"
               /\ cacheSlot' # cacheSlot => cacheSlot' = Env(now, v.data)
               /\ eventsSlot' # eventsSlot =>
                     /\ IsLog(eventsSlot')
                     /\ Len(eventsSlot'.v) = Len(Stored(eventsSlot)) + 1
                     /\ eventsSlot'.v[1].type = "tmdb_fetch_success"
                     /\ eventsSlot'.v[1].payload.n = Len(v.data)]_vars

\* When the storage engine accepts both writes, the view is Ready, the
\* cache holds the envelope of now and the list shown, and the newest event
\* is the success event with the length of the list.
SuccessEndsReadyUnlessWriteRaised ==
    [][\A i \in DOMAIN inst :
         (~inst[i].parsed /\ inst'[i].parsed /\ inst'[i].view.error = "null") =>
            LET v == inst'[i].view
            IN /\ ~v.loading
               /\ cacheSlot' = Env(now, v.data)
               /\ IsLog(eventsSlot')
               /\ eventsSlot'.v[1].type = "tmdb_fetch_success"
               /\ eventsSlot'.v[1].payload.n = Len(v.data)]_vars

(***************************************************************************)
(* useLocalStorage("streamlist.items", [], { debounce: 200 })              *)
(* (part_001:12-55, called at line 123), in each context of `live`.        *)
(*                                                                         *)
(* A collection is a number (0 the empty list, the hook's initialValue);   *)
(* the slot is Raw("none", _), Raw("bad", _) or Raw("json", collection).   *)
(* A write that changes the slot's content queues a storage event, holding *)
(* the key, the storage area and the new content, for every other context  *)
(* with a listener; a context dispatches its events one at a time, in      *)
(* order.                                                                  *)
(***************************************************************************)
\* The key the hook is called with at line 123, and the key of another slot.
ItemsKey == "streamlist.items"
FilterKey == "streamlist.filter"

\* A StorageEvent: e.key, e.storageArea ("local" for localStorage) and what
\* JSON.parse makes of e.newValue.
Event(key, area, raw) == [key |-> key, area |-> area, k |-> raw.k, v |-> raw.v]

Vals == 0..MaxVal

\* JSON.stringify(value), line 26
Stringify(v) == Raw("json", v)

\* Lines 14-19: raw != null ? JSON.parse(raw) : initialValue, initialValue
\* when JSON.parse throws.
Read(raw) == IF raw.k = "json" THEN raw.v ELSE initialValue

\* The effect's cleanup, line 34: t && clearTimeout(t), where t is the timer
\* the effect being cleaned up has set, the youngest one; clearing a timer
\* that has fired does nothing.
Cleared(pending) ==
    IF pending = <<>> THEN <<>> ELSE SubSeq(pending, 1, Len(pending) - 1)

\* A rerun of the write effect that leaves the timers pending as they are
\* and sets one more.
Schedule_NoCleanup(pending, cause) == pending \o <<cause>>

\* A render with a new `value` reruns the write effect, lines 22-35: the
\* cleanup of the run before, then (debounce is 200 > 0 at line 123)
\* t = setTimeout(write, debounce), tagged with what changed the value.
Schedule(pending, cause) == Cleared(pending) \o <<cause>>

\* window.addEventListener("storage", onStorage), line 50: every run of the
\* effect makes a new onStorage, so the window has one listener more.
Added(n) == n + 1

\* The cleanup of the listener effect, line 51: removeEventListener with the
\* onStorage of the run being cleaned up.
Removed(n) == IF n > 0 THEN n - 1 ELSE 0

\* A render that leaves the listeners of the renders before in place and
\* adds its own.
Rerendered_NoCleanup(n) == Added(n)

\* A render after the first: the initialValue of line 123 is a new [] in
\* every render, so the dependencies of line 52 have changed and the
\* listener effect reruns, its cleanup first.
Rerendered(n) == Added(Removed(n))

\* The consumer mounts: the initial read, the write effect and the listener.
Mount(c) ==
    /\ c \in live /\ ~mounted[c]
    /\ st.m < MaxMounts
    /\ st' = [st EXCEPT !.m = st.m + 1, !.reg[c] = Added(@)]
    /\ mounted' = [mounted EXCEPT ![c] = TRUE]
    /\ val' = [val EXCEPT ![c] = Read(itemsSlot)]
    /\ timer' = [timer EXCEPT ![c] = Schedule(timer[c], "mount")]
    /\ UNCHANGED <<itemsSlot, initialValue, live, queue, logVars, movieVars, listVars>>

\* A local update: the consumer calls setValue with a new collection (every
\* updater of HomeStreamList returns a new array, so the effect always
\* reruns).
SetValue(c, v) ==
    /\ mounted[c]
    /\ st.n < MaxUpdates
    /\ val' = [val EXCEPT ![c] = v]
    /\ timer' = [timer EXCEPT ![c] = Schedule(timer[c], "local")]
    /\ st' = [st EXCEPT !.n = st.n + 1, !.who = st.who \cup {c},
                        !.reg[c] = Rerendered(@)]
    /\ UNCHANGED <<itemsSlot, initialValue, live, mounted, queue, logVars, movieVars, listVars>>

\* The contexts whose listener gets the storage event of a write by c.
Listeners(c) == {d \in live : d # c /\ mounted[d]}

\* The queues after c's write left the slot holding `raw`.
Notify(c, raw) ==
    [d \in Ctx |-> IF d \in Listeners(c) /\ raw # itemsSlot
                   THEN Append(queue[d], Event(ItemsKey, "local", raw)) ELSE queue[d]]

\* The debounce delay has passed: write(), lines 24-28.  setItem may throw
\* (quota); the catch swallows it.
TimerFire(c, quota) ==
    /\ mounted[c] /\ timer[c] # <<>>
    /\ timer' = [timer EXCEPT ![c] = Tail(timer[c])]
    /\ IF quota
         THEN UNCHANGED <<itemsSlot, queue>>
         ELSE /\ itemsSlot' = Stringify(val[c])
              /\ queue' = Notify(c, Stringify(val[c]))
    /\ st' = [st EXCEPT !.failed = st.failed \/ quota]
    /\ UNCHANGED <<initialValue, live, mounted, val, logVars, movieVars, listVars>>

\* Line 40 with any key, for an event of the origin's localStorage.
Watched_AnyKey(e) == e.area = "local"

\* e.key === key && e.storageArea === localStorage, line 40
Watched(e) == e.key = ItemsKey /\ e.area = "local"

\* The value onStorage computes from e.newValue, line 42.
NextValue(e) == IF e.k = "none" THEN initialValue ELSE e.v

\* setValue's updater, line 45: the current value unless its JSON differs.
Updated(curr, next) == Stringify(curr) # Stringify(next)

\* A storage event is dispatched to c's listener: onStorage, lines 39-49.
OnStorage(c) ==
    /\ queue[c] # <<>>
    /\ LET e == Head(queue[c])
           \* the window has a listener of the hook to call, JSON.parse threw
           \* nothing (line 42) and the updater returned next
           changes == /\ st.reg[c] > 0
                      /\ Watched(e) /\ e.k # "bad" /\ Updated(val[c], NextValue(e))
           kind == IF Watched(e) THEN {} ELSE {[key |-> e.key, area |-> e.area]}
       IN /\ val' = [val EXCEPT ![c] = IF changes THEN NextValue(e) ELSE val[c]]
          /\ timer' = [timer EXCEPT ![c] = IF changes THEN Schedule(timer[c], "storage")
                                          ELSE timer[c]]
          /\ st' = [st EXCEPT !.seen = st.seen \cup kind,
                              !.reg[c] = IF changes THEN Rerendered(@) ELSE @,
                              !.late = @ \/ st.reg[c] = 0]
    /\ queue' = [queue EXCEPT ![c] = Tail(queue[c])]
    /\ UNCHANGED <<itemsSlot, initialValue, live, mounted, logVars, movieVars, listVars>>

\* What a writer outside the modelled contexts may leave in an item.
ForeignRaws == {Raw("none", 0), Raw("bad", 0)} \cup {Stringify(v) : v \in Vals}

\* The events of writes from outside: to the list slot, to another slot of
\* localStorage, and to sessionStorage under either key.
ForeignEvents ==
    {Event(ItemsKey, "local", r) : r \in ForeignRaws}
    \cup {Event(key, "session", r) : key \in {ItemsKey, FilterKey},
                                    r \in {Raw("none", 0), Stringify(MaxVal)}}
    \cup {Event(FilterKey, "local", r) : r \in {Raw("none", 0), Stringify(MaxVal)}}

\* A program of the origin other than the modelled contexts (another page,
\* the developer tools) changes an item of localStorage or sessionStorage:
\* every listening context is sent the event, and the list slot holds the
\* new content when it is the item written.
ForeignWrite(e) ==
    /\ st.f < MaxForeign
    /\ st' = [st EXCEPT !.f = st.f + 1]
    /\ IF Watched(e)
         THEN /\ Raw(e.k, e.v) # itemsSlot
              /\ itemsSlot' = Raw(e.k, e.v)
         ELSE UNCHANGED itemsSlot
    /\ queue' = [d \in Ctx |-> IF d \in live /\ mounted[d]
                                THEN Append(queue[d], e) ELSE queue[d]]
    /\ UNCHANGED <<initialValue, live, mounted, val, timer, logVars, movieVars, listVars>>

\* The consumer is torn down: both effects' cleanups (lines 34 and 51), and
\* the component's state is gone.  `pending` is what is left of the storage
\* events the window has not dispatched yet.
Unmounted(c, pending) ==
    /\ mounted[c]
    /\ mounted' = [mounted EXCEPT ![c] = FALSE]
    /\ val' = [val EXCEPT ![c] = initialValue]
    /\ timer' = [timer EXCEPT ![c] = Cleared(timer[c])]
    /\ queue' = [queue EXCEPT ![c] = pending]
    /\ st' = [st EXCEPT !.reg[c] = Removed(@)]
    /\ UNCHANGED <<itemsSlot, initialValue, live, logVars, movieVars, listVars>>

\* The teardown when the events still to dispatch are left out: a window
\* without a listener has no one to dispatch them to.
Unmount(c) == Unmounted(c, <<>>)

\* The teardown with the events in flight kept: the window dispatches them
\* after the listener is gone, or to the listener of a later mount.
UnmountInFlight(c) == Unmounted(c, queue[c])

InitStore ==
    /\ initialValue = 0
    /\ itemsSlot \in {Raw("none", 0), Raw("bad", 0)} \cup {Stringify(v) : v \in Vals}
    /\ live \in {{1}, Ctx}
    /\ mounted = [c \in Ctx |-> FALSE]
    /\ val = [c \in Ctx |-> 0]
    /\ timer = [c \in Ctx |-> <<>>]
    /\ queue = [c \in Ctx |-> <<>>]
    /\ st = StInit
    /\ LogIdle /\ MovieIdle /\ ListIdle

NextStore ==
    \/ \E c \in Ctx : Mount(c)
    \/ \E c \in Ctx, v \in Vals : SetValue(c, v)
    \/ \E c \in Ctx, quota \in BOOLEAN : TimerFire(c, quota)
    \/ \E c \in Ctx : OnStorage(c)
    \/ \E c \in Ctx : Unmount(c)

SpecStore == InitStore /\ [][NextStore]_vars

\* Timers fire and queued events are dispatched.
FairSpecStore ==
    /\ SpecStore
    /\ \A c \in Ctx : WF_vars(\E quota \in BOOLEAN : TimerFire(c, quota))
    /\ \A c \in Ctx : WF_vars(OnStorage(c))

\* The steps of the hook, told by what they change.
UnmountStep(c) == mounted[c] /\ ~mounted'[c]
WriteStep(c) ==
    mounted[c] /\ mounted'[c] /\ timer[c] # <<>> /\ timer'[c] = Tail(timer[c])
StorageStep(c) == mounted[c] /\ mounted'[c] /\ queue[c] # <<>> /\ queue'[c] = Tail(queue[c])

\* C5: with one context, the last value set reaches the durable slot, also
\* when the view is torn down after the last update.  At the teardown the
\* context's timer is cleared and nothing of it is pending any more, so the
\* slot must hold the value by then.
C5_LastValuePersisted ==
    [][(live = {1} /\ ~st.failed /\ UnmountStep(1))
          => Read(itemsSlot') = val[1]]_vars

\* Every mounted context holds the durable value.
Converged == \A c \in live : mounted[c] => val[c] = Read(itemsSlot)

\* C6: with local updates over (at most MaxUpdates are made) and every write
\* accepted by the storage engine, the contexts reach, and stay in, a state
\* where the durable value and every in-memory value are equal.
C6_EventuallyConverged == <>[](Converged \/ st.failed)

\* C7: a mounted context that made no local update and is notified of
\* another context's write takes over the written collection and, as a
\* consequence, writes nothing to the slot itself.
C7_ObserverDoesNotWrite ==
    [][\A c \in live :
         /\ (StorageStep(c) /\ Watched(Head(queue[c])) /\ Head(queue[c]).k = "json")
                => val'[c] = Head(queue[c]).v
         /\ ~(WriteStep(c) /\ Head(timer[c]) = "storage" /\ c \notin st.who)]_vars

\* A write scheduled by a notification never changes what the slot holds.
EchoWriteChangesNothing ==
    [][\A c \in live :
         (WriteStep(c) /\ Head(timer[c]) = "storage" /\ c \notin st.who)
            => Read(itemsSlot') = Read(itemsSlot)]_vars

\* C24: a write by a context that has made no local update never changes
\* the value the slot holds; in particular the write it scheduled when it
\* mounted does not replace a value written since by another context.
C24_ObserverKeepsDurableValue ==
    [][\A c \in live :
         (WriteStep(c) /\ c \notin st.who) => Read(itemsSlot') = Read(itemsSlot)]_vars

\* The same of the write scheduled at the mount alone.
StartupWriteChangesNothing ==
    [][\A c \in live :
         (WriteStep(c) /\ Head(timer[c]) = "mount" /\ c \notin st.who)
            => Read(itemsSlot') = Read(itemsSlot)]_vars

(***************************************************************************)
(* The hook in one context, with the list slot and the other items of the *)
(* origin's storage also written from outside.                             *)
(***************************************************************************)
InitNotify ==
    /\ initialValue = 0
    /\ itemsSlot \in {Raw("none", 0), Raw("bad", 0)} \cup {Stringify(v) : v \in Vals}
    /\ live = {1}
    /\ mounted = [c \in Ctx |-> FALSE]
    /\ val = [c \in Ctx |-> 0]
    /\ timer = [c \in Ctx |-> <<>>]
    /\ queue = [c \in Ctx |-> <<>>]
    /\ st = StInit
    /\ LogIdle /\ MovieIdle /\ ListIdle

NextNotify ==
    \/ Mount(1)
    \/ \E v \in Vals : SetValue(1, v)
    \/ \E quota \in BOOLEAN : TimerFire(1, quota)
    \/ OnStorage(1)
    \/ Unmount(1)
    \/ \E e \in ForeignEvents : ForeignWrite(e)

SpecNotify == InitNotify /\ [][NextNotify]_vars

(***************************************************************************)
(* The same context and the same writes from outside, with the view torn   *)
(* down while notifications are still to be dispatched to its window.      *)
(***************************************************************************)
NextObserver ==
    \/ Mount(1)
    \/ \E v \in Vals : SetValue(1, v)
    \/ \E quota \in BOOLEAN : TimerFire(1, quota)
    \/ OnStorage(1)
    \/ UnmountInFlight(1)
    \/ \E e \in ForeignEvents : ForeignWrite(e)

SpecObserver == InitNotify /\ [][NextObserver]_vars

\* A notification is dispatched to c's window while c's view is torn down.
LateStep(c) == ~mounted[c] /\ ~mounted'[c] /\ queue[c] # <<>> /\ queue'[c] = Tail(queue[c])

\* C21: a mounted consumer of the slot has exactly one storage listener on
\* its window, however often it has rendered, and a torn-down one has none;
\* a notification dispatched after the teardown changes neither the
\* consumer's value nor its pending writes nor the slot.
C21_OneObserverWhileMounted ==
    /\ [](\A c \in Ctx : st.reg[c] = IF mounted[c] THEN 1 ELSE 0)
    /\ [][\A c \in Ctx :
            LateStep(c) => /\ val'[c] = val[c] /\ timer'[c] = timer[c]
                           /\ timer[c] = <<>> /\ itemsSlot' = itemsSlot]_vars

\* The view has rendered again after a local update, was torn down with a
\* notification for the watched slot in flight, and the window has
\* dispatched that notification since.
C21_Witness ==
    /\ ~mounted[1] /\ st.reg[1] = 0 /\ st.n >= 1 /\ st.late
    /\ st.f = 1 /\ st.seen = {} /\ queue[1] = <<>>

\* C19: a notification changes the in-memory value only when it is for the
\* watched key, for localStorage, and carries a value other than the value
\* in memory; a notification for another key or another area, or carrying
\* the value in memory, leaves the value and the pending write as they are.
C19_OnlyWatchedChangeUpdates ==
    [][\A c \in Ctx :
         StorageStep(c) =>
            LET e == Head(queue[c])
                mine == e.key = ItemsKey /\ e.area = "local"
                equal == e.k # "bad" /\ NextValue(e) = val[c]
            IN /\ val'[c] # val[c] => (mine /\ e.k # "bad" /\ NextValue(e) # val[c])
               /\ (~mine \/ equal) => (val'[c] = val[c] /\ timer'[c] = timer[c])]_vars

\* The context, holding a collection and with a write pending, has
\* dispatched a notification for its own key in sessionStorage.
C19_Witness ==
    /\ mounted[1] /\ val[1] # initialValue /\ timer[1] # <<>>
    /\ st.seen = {[key |-> ItemsKey, area |-> "session"]}

\* C20: a notification for the watched slot whose new value does not parse
\* sets the in-memory value to the hook's initialValue, as the removal of
\* the item does.
C20_UnparsableGivesDefault ==
    [][\A c \in Ctx :
         (StorageStep(c) /\ Watched(Head(queue[c])) /\ Head(queue[c]).k \in {"bad", "none"})
            => val'[c] = initialValue]_vars

\* The same of the removal alone.
RemovalGivesDefault ==
    [][\A c \in Ctx :
         (StorageStep(c) /\ Watched(Head(queue[c])) /\ Head(queue[c]).k = "none")
            => val'[c] = initialValue]_vars

\* C18: a context never has more than one write pending, a change of its
\* value leaves exactly the write scheduled for that change pending, and the
\* durable slot changes only in a step in which a pending write fires.
C18_OnePendingWrite ==
    /\ [](\A c \in Ctx : Len(timer[c]) <= 1)
    /\ [][/\ \A c \in Ctx : (mounted'[c] /\ val'[c] # val[c]) => Len(timer'[c]) = 1
          /\ itemsSlot' # itemsSlot => \E c \in Ctx : WriteStep(c)]_vars

\* A context changed its value twice while the write of its mount, and then
\* the write of the first change, was still pending.
C18_Witness ==
    \E c \in Ctx :
        /\ mounted[c] /\ timer[c] = <<"local">>
        /\ st.n = 2 /\ st.who = {c} /\ st.m = 1 /\ ~st.failed
        /\ itemsSlot.k = "none"

(***************************************************************************)
(* HomeStreamList (part_001:117-209) in one context (context 1): the list  *)
(* view's handlers over the two useLocalStorage hooks and useEventLog.     *)
(*                                                                         *)
(* An item is [id, title, completed, createdAt]; val[1] is `items`.  A     *)
(* handler runs to completion; the state updates it queued before raising  *)
(* are applied by React all the same.                                      *)
(***************************************************************************)
Me == 1

items == val[Me]

Item(id, t, completed, createdAt) ==
    [id |-> id, title |-> t, completed |-> completed, createdAt |-> createdAt]

\* What the user may type, and s.replace(/\s+/g, " ").trim() of it
\* (lines 137 and 166).
Typed == {"   ", "  b   c "}

\* The title as typed.
Normalize_AsTyped(t) == t

Normalize(t) ==
    CASE t = "" -> ""
      [] t = "   " -> ""
      [] t = "a" -> "a"
      [] t = "  b   c " -> "b c"
      [] OTHER -> t

\* items.find((x) => x.id === id); NoItem when there is none (undefined).
NoItem == Item(NoId, "", FALSE, 0)
Find(its, id) ==
    IF \E i \in DOMAIN its : its[i].id = id
    THEN its[CHOOSE i \in DOMAIN its : its[i].id = id /\ \A j \in 1..(i - 1) : its[j].id # id]
    ELSE NoItem

\* prev.filter((x) => x.id !== id), line 182
Without(its, id) == SelectSeq(its, LAMBDA x : x.id # id)

\* items.filter((i) => i.completed) and its complement, lines 188-189
Completed(its) == SelectSeq(its, LAMBDA i : i.completed)
\* The same filter keeping every item.
Active_All(its) == its
Active(its) == SelectSeq(its, LAMBDA it : ~it.completed)

\* prev.map((it) => (it.id === id ? {...it, title: t} : it)), line 168
Retitled(its, id, t) ==
    [i \in DOMAIN its |-> IF its[i].id = id THEN [its[i] EXCEPT !.title = t] ELSE its[i]]

\* stats with every item counted as done.
stats_AllDone(its) == [total |-> Len(its), done |-> Len(its), left |-> 0]

\* stats, lines 200-204
stats(its) ==
    [total |-> Len(its),
     done |-> Len(Completed(its)),
     left |-> Len(its) - Len(Completed(its))]

\* The hook's write effect for the filter slot (debounce 0): write() at once,
\* line 32; a refused write is swallowed.
FilterWritten(f, quota) == IF quota THEN filterSlot ELSE Raw("json", f)

\* The call log(type, payload) a handler makes, with the bookkeeping of it.
Logged(op, arg, type, payload, quota) ==
    LET r == log(eventsSlot, Entry(uuid, type, payload), quota)
    IN /\ eventsSlot' = r.slot
       /\ hs' = [op |-> op, arg |-> arg, raised |-> r.raised, quota |-> quota,
                 n |-> hs.n + 1]
LogRaises(type, payload, quota) ==
    log(eventsSlot, Entry(uuid, type, payload), quota).raised

\* setItems(f): the new collection, and the write effect rescheduled.
SetItems(its) ==
    /\ val' = [val EXCEPT ![Me] = its]
    /\ timer' = [timer EXCEPT ![Me] = Schedule(timer[Me], "local")]

CanHandle == mounted[Me] /\ hs.n < MaxOps

\* The component mounts: both hooks read their slots (lines 123, 126), the
\* write effects run, and the mount effect logs the page view (lines
\* 130-132).  When that raises, React unmounts the tree.
HomeMount(quota, quotaFilter) ==
    /\ ~mounted[Me] /\ hs.op = "init"
    /\ LET f == IF filterSlot.k = "json" THEN filterSlot.v ELSE "all"
           raises == LogRaises("page_view", Payload("home", 0), quota)
       IN /\ filter' = f
          /\ filterSlot' = FilterWritten(f, quotaFilter)
          /\ val' = [val EXCEPT ![Me] = Read(itemsSlot)]
          /\ mounted' = [mounted EXCEPT ![Me] = ~raises]
          /\ timer' = [timer EXCEPT ![Me] = IF raises THEN <<>>
                                          ELSE Schedule(timer[Me], "mount")]
          /\ st' = [st EXCEPT !.reg[Me] = IF raises THEN Removed(Added(@))
                                          ELSE Added(@)]
    /\ Logged("mount", NoId, "page_view", Payload("home", 0), quota)
    /\ nextId' = nextId + 1
    /\ UNCHANGED <<lg, rc, movieVars, itemsSlot, initialValue, live, queue,
                   title, editingId, editingText>>

\* The user types in the composer or in the edit box.
Type(t) ==
    /\ CanHandle
    /\ title' = t
    /\ UNCHANGED <<logVars, movieVars, storeVars, filterSlot, editingId, editingText, filter, hs>>

TypeEdit(t) ==
    /\ CanHandle /\ editingId # NoId
    /\ editingText' = t
    /\ UNCHANGED <<logVars, movieVars, storeVars, filterSlot, editingId, title, filter, hs>>

\* addItem, lines 135-144
addItem(quota) ==
    /\ CanHandle
    /\ LET trimmed == Normalize(title)
       IN IF trimmed = ""
            THEN /\ hs' = [op |-> "addItem", arg |-> NoId, raised |-> FALSE, quota |-> FALSE,
                          n |-> hs.n + 1]
                 /\ UNCHANGED <<eventsSlot, nextId, val, timer, title>>
            ELSE /\ SetItems(<<Item(uuid, trimmed, FALSE, now)>> \o items)
                 /\ title' = ""
                 /\ LET r == log(eventsSlot, Entry(uuid + 1, "item_add", Payload(trimmed, 0)), quota)
                    IN /\ eventsSlot' = r.slot
                       /\ hs' = [op |-> "addItem", arg |-> NoId, raised |-> r.raised,
                                 quota |-> quota, n |-> hs.n + 1]
                 /\ nextId' = nextId + 2
    /\ UNCHANGED <<lg, rc, movieVars, itemsSlot, initialValue, live, mounted, queue, st,
                   filterSlot, editingId, editingText, filter>>

\* The ids a handler may be called with: an item's, or one of no item.
Ids == {items[i].id : i \in DOMAIN items} \cup {NoId}

\* The toggled item built from its id and the new flag alone.
Toggled_NoSpread(it) == Item(it.id, "", ~it.completed, 0)

\* { ...it, completed: !it.completed }, line 150
Toggled(it) == [it EXCEPT !.completed = ~it.completed]

\* toggleComplete, lines 147-153
toggleComplete(id, quota) ==
    /\ CanHandle
    /\ SetItems([i \in DOMAIN items |-> IF items[i].id = id THEN Toggled(items[i]) ELSE items[i]])
    /\ Logged("toggleComplete", id, "item_toggle", Payload(Find(items, id).title, id), quota)
    /\ nextId' = nextId + 1
    /\ UNCHANGED <<lg, rc, movieVars, itemsSlot, initialValue, live, mounted, queue, st,
                   filterSlot, title, editingId, editingText, filter>>

\* startEdit, lines 156-162
startEdit(id, quota) ==
    /\ CanHandle
    /\ IF Find(items, id) = NoItem
         THEN /\ hs' = [op |-> "startEdit", arg |-> id, raised |-> FALSE, quota |-> FALSE,
                       n |-> hs.n + 1]
              /\ UNCHANGED <<eventsSlot, nextId, editingId, editingText>>
         ELSE /\ editingId' = id
              /\ editingText' = Find(items, id).title
              /\ Logged("startEdit", id, "item_edit_start", Payload(Find(items, id).title, id), quota)
              /\ nextId' = nextId + 1
    /\ UNCHANGED <<lg, rc, movieVars, storeVars, filterSlot, title, filter>>

\* cancelEdit, lines 173-177: log comes first, so nothing after it runs when
\* it raises.
CancelEdit(op, quota) ==
    /\ Logged(op, NoId, "item_edit_cancel", Payload("", editingId), quota)
    /\ nextId' = nextId + 1
    /\ IF LogRaises("item_edit_cancel", Payload("", editingId), quota)
         THEN UNCHANGED <<editingId, editingText>>
         ELSE editingId' = NoId /\ editingText' = ""

cancelEdit(quota) ==
    /\ CanHandle
    /\ CancelEdit("cancelEdit", quota)
    /\ UNCHANGED <<lg, rc, movieVars, storeVars, filterSlot, title, filter>>

\* saveEdit, lines 165-172
saveEdit(quota) ==
    /\ CanHandle
    /\ LET trimmed == Normalize(editingText)
       IN IF trimmed = ""
            THEN CancelEdit("saveEdit", quota) /\ UNCHANGED <<val, timer>>
            ELSE /\ SetItems(Retitled(items, editingId, trimmed))
                 /\ Logged("saveEdit", NoId, "item_edit_save", Payload(trimmed, editingId), quota)
                 /\ nextId' = nextId + 1
                 /\ IF LogRaises("item_edit_save", Payload(trimmed, editingId), quota)
                      THEN UNCHANGED <<editingId, editingText>>
                      ELSE editingId' = NoId /\ editingText' = ""
    /\ UNCHANGED <<lg, rc, movieVars, itemsSlot, initialValue, live, mounted, queue, st,
                   filterSlot, title, filter>>

\* removeItem, lines 180-184
removeItem(id, quota) ==
    /\ CanHandle
    /\ SetItems(Without(items, id))
    /\ Logged("removeItem", id, "item_delete", Payload(Find(items, id).title, id), quota)
    /\ nextId' = nextId + 1
    /\ UNCHANGED <<lg, rc, movieVars, itemsSlot, initialValue, live, mounted, queue, st,
                   filterSlot, title, editingId, editingText, filter>>

\* clearCompleted, lines 187-191
clearCompleted(quota) ==
    /\ CanHandle
    /\ SetItems(Active(items))
    /\ Logged("clearCompleted", NoId, "items_clear_completed",
              Payload("removed", Len(Completed(items))), quota)
    /\ nextId' = nextId + 1
    /\ UNCHANGED <<lg, rc, movieVars, itemsSlot, initialValue, live, mounted, queue, st,
                   filterSlot, title, editingId, editingText, filter>>

\* setAndLogFilter, lines 206-209, and the filter hook's write effect after
\* the render.
setAndLogFilter(next, quota, quotaFilter) ==
    /\ CanHandle
    /\ filter' = next
    /\ filterSlot' = FilterWritten(next, quotaFilter)
    /\ Logged("setAndLogFilter", NoId, "filter_change", Payload(next, 0), quota)
    /\ nextId' = nextId + 1
    /\ UNCHANGED <<lg, rc, movieVars, storeVars, title, editingId, editingText>>

InitList ==
    /\ eventsSlot = Raw("none", <<>>)
    /\ nextId = 1
    /\ lg = LgInit
    /\ rc = RcIdle
    /\ MovieIdle
    /\ initialValue = <<>>
    /\ itemsSlot \in {Raw("none", <<>>), Stringify(<<Item(100, "a", TRUE, 0)>>)}
    /\ live = {Me}
    /\ mounted = [c \in Ctx |-> FALSE]
    /\ val = [c \in Ctx |-> <<>>]
    /\ timer = [c \in Ctx |-> <<>>]
    /\ queue = [c \in Ctx |-> <<>>]
    /\ st = StInit
    /\ ListIdle

NextList ==
    \/ \E quota \in BOOLEAN, qf \in BOOLEAN : HomeMount(quota, qf)
    \/ \E t \in Typed : Type(t)
    \/ \E t \in Typed : TypeEdit(t)
    \/ \E quota \in BOOLEAN : addItem(quota)
    \/ \E id \in Ids, quota \in BOOLEAN : toggleComplete(id, quota)
    \/ \E id \in Ids, quota \in BOOLEAN : startEdit(id, quota)
    \/ \E quota \in BOOLEAN : cancelEdit(quota)
    \/ \E quota \in BOOLEAN : saveEdit(quota)
    \/ \E id \in Ids, quota \in BOOLEAN : removeItem(id, quota)
    \/ \E quota \in BOOLEAN : clearCompleted(quota)
    \/ \E next \in {"all", "active", "completed"}, quota \in BOOLEAN, qf \in BOOLEAN :
          setAndLogFilter(next, quota, qf)
    \/ \E quota \in BOOLEAN : TimerFire(Me, quota)

SpecList == InitList /\ [][NextList]_vars

\* C9: when the storage engine refuses the write inside log, the handler
\* that called it does not raise and still runs to its end: in particular
\* saveEdit and cancelEdit leave the edit mode.
C9_LogFailureSwallowed ==
    hs.quota =>
        /\ ~hs.raised
        /\ hs.op \in {"saveEdit", "cancelEdit"} => editingId = NoId

\* The last step was a call of one of the handlers that change the collection.
ListOp == hs.op \in {"addItem", "toggleComplete", "removeItem", "clearCompleted"}

\* C11: in every state the list view reaches, stats has total = the number
\* of items, done = the number of completed items, left = total - done, so
\* that total = done + left.
C11_StatsConsistent ==
    mounted[Me] =>
        LET s == stats(items)
        IN /\ s.total = Len(items)
           /\ s.done = Cardinality({i \in DOMAIN items : items[i].completed})
           /\ s.left = s.total - s.done
           /\ s.total = s.done + s.left

\* A handler left a collection with a completed item and an active one.
C11_Witness ==
    /\ mounted[Me] /\ ListOp
    /\ stats(items).done >= 1 /\ stats(items).left >= 1

\* A step that is a call of the handler op.
Call(op) == hs'.n = hs.n + 1 /\ hs'.op = op

\* The titles that are empty or hold white space only.
Blank == {"", "   "}

\* C12: addItem with a title that is empty or white space only changes
\* neither the collection, nor the durable list slot, nor the pending write,
\* nor the event log.
C12_BlankAddIsNoOp ==
    [][(Call("addItem") /\ title \in Blank) =>
          /\ val' = val
          /\ timer' = timer
          /\ itemsSlot' = itemsSlot
          /\ eventsSlot' = eventsSlot]_vars

\* addItem was called with a title of white space only.
C12_Witness == hs.op = "addItem" /\ title = "   "

\* The ids of the items of a collection.
ItemIds(its) == {its[i].id : i \in DOMAIN its}

\* C13: toggleComplete and removeItem called with an id of no item change
\* nothing: the collection is as before and no event is appended.
C13_UnknownIdIsNoOp ==
    [][((Call("toggleComplete") \/ Call("removeItem")) /\ hs'.arg \notin ItemIds(items)) =>
          /\ val' = val
          /\ eventsSlot' = eventsSlot]_vars

\* The same of the collection alone.
UnknownIdKeepsCollection ==
    [][((Call("toggleComplete") \/ Call("removeItem")) /\ hs'.arg \notin ItemIds(items)) =>
          val' = val]_vars

(***************************************************************************)
(* clearCompleted on any stored collection: the page loads with a          *)
(* collection of up to MaxItems items, each completed or not, and          *)
(* clearCompleted is called again and again.                               *)
(***************************************************************************)
\* The collections of n items with ids 101.., newest first.
Collections(n) ==
    {[i \in 1..n |-> Item(100 + i, "a", f[i], 0)] : f \in [1..n -> BOOLEAN]}

InitClear ==
    /\ eventsSlot = Raw("none", <<>>)
    /\ nextId = 1
    /\ lg = LgInit
    /\ rc = RcIdle
    /\ MovieIdle
    /\ initialValue = <<>>
    /\ itemsSlot \in {Stringify(its) : its \in UNION {Collections(n) : n \in 0..MaxItems}}
    /\ live = {Me}
    /\ mounted = [c \in Ctx |-> FALSE]
    /\ val = [c \in Ctx |-> <<>>]
    /\ timer = [c \in Ctx |-> <<>>]
    /\ queue = [c \in Ctx |-> <<>>]
    /\ st = StInit
    /\ ListIdle

NextClear ==
    \/ \E quota \in BOOLEAN, qf \in BOOLEAN : HomeMount(quota, qf)
    \/ \E quota \in BOOLEAN : clearCompleted(quota)
    \/ \E quota \in BOOLEAN : TimerFire(Me, quota)

SpecClear == InitClear /\ [][NextClear]_vars

\* s is t with some elements left out, the others in their order.
RECURSIVE IsSubSeq(_, _)
IsSubSeq(s, t) ==
    IF s = <<>> THEN TRUE
    ELSE IF t = <<>> THEN FALSE
    ELSE IF Head(s) = Head(t) THEN IsSubSeq(Tail(s), Tail(t))
    ELSE IsSubSeq(s, Tail(t))

\* C14: a call of clearCompleted leaves exactly the items that were not
\* completed, in their order, and a call right after another leaves the
\* collection as the first left it.
C14_ClearCompletedIdempotent ==
    [][Call("clearCompleted") =>
          /\ \A i \in DOMAIN items' : ~items'[i].completed
          /\ Len(items') = Cardinality({i \in DOMAIN items : ~items[i].completed})
          /\ IsSubSeq(items', items)
          /\ hs.op = "clearCompleted" => items' = items]_vars

\* clearCompleted was called twice in a row on a collection that held one
\* completed item and two active ones.
C14_Witness ==
    /\ hs.op = "clearCompleted" /\ Len(items) = 2
    /\ IsLog(eventsSlot) /\ Len(eventsSlot.v) >= 3
    /\ eventsSlot.v[1].type = "items_clear_completed"
    /\ eventsSlot.v[2].type = "items_clear_completed"
    /\ eventsSlot.v[2].payload.n = 1

(***************************************************************************)
(* The list view in two contexts that load the same stored collection and  *)
(* remove items from it: removeItem and clearCompleted in either context,  *)
(* with the hook's debounced writes and storage events between them.       *)
(***************************************************************************)
\* The item the stored collection holds when the contexts load.
Kept == Item(100, "a", TRUE, 0)

\* The setItems call of a handler in context c, a local update.
SetItemsIn(c, its) ==
    /\ val' = [val EXCEPT ![c] = its]
    /\ timer' = [timer EXCEPT ![c] = Schedule(timer[c], "local")]
    /\ st' = [st EXCEPT !.n = st.n + 1, !.who = st.who \cup {c},
                        !.reg[c] = Rerendered(@)]

\* removeItem(id), lines 180-184, in context c, for an item it holds.
removeItemIn(c, id, quota) ==
    /\ mounted[c] /\ st.n < MaxUpdates
    /\ id \in ItemIds(val[c])
    /\ SetItemsIn(c, Without(val[c], id))
    /\ eventsSlot' = log(eventsSlot, Entry(uuid, "item_delete",
                                          Payload(Find(val[c], id).title, id)), quota).slot
    /\ nextId' = nextId + 1
    /\ UNCHANGED <<lg, rc, movieVars, itemsSlot, initialValue, live, mounted, queue, listVars>>

\* clearCompleted(), lines 187-191, in context c, when it holds a completed
\* item.
clearCompletedIn(c, quota) ==
    /\ mounted[c] /\ st.n < MaxUpdates
    /\ Completed(val[c]) # <<>>
    /\ SetItemsIn(c, Active(val[c]))
    /\ eventsSlot' = log(eventsSlot, Entry(uuid, "items_clear_completed",
                                          Payload("removed", Len(Completed(val[c])))), quota).slot
    /\ nextId' = nextId + 1
    /\ UNCHANGED <<lg, rc, movieVars, itemsSlot, initialValue, live, mounted, queue, listVars>>

InitTabs ==
    /\ eventsSlot = Raw("none", <<>>)
    /\ nextId = 1
    /\ lg = LgInit
    /\ rc = RcIdle
    /\ MovieIdle
    /\ initialValue = <<>>
    /\ itemsSlot = Stringify(<<Kept>>)
    /\ live = Ctx
    /\ mounted = [c \in Ctx |-> FALSE]
    /\ val = [c \in Ctx |-> <<>>]
    /\ timer = [c \in Ctx |-> <<>>]
    /\ queue = [c \in Ctx |-> <<>>]
    /\ st = StInit
    /\ ListIdle

NextTabs ==
    \/ \E c \in Ctx : Mount(c)
    \/ \E c \in Ctx, quota \in BOOLEAN : removeItemIn(c, Kept.id, quota)
    \/ \E c \in Ctx, quota \in BOOLEAN : clearCompletedIn(c, quota)
    \/ \E c \in Ctx, quota \in BOOLEAN : TimerFire(c, quota)
    \/ \E c \in Ctx : OnStorage(c)
    \/ \E c \in Ctx : Unmount(c)

SpecTabs == InitTabs /\ [][NextTabs]_vars

\* The context holds the item again that it removed.
Resurrected(c) == c \in st.who /\ mounted[c] /\ Kept.id \in ItemIds(val[c])

\* C15: a context that removed the item never holds an item of that id
\* again, and once the item has been removed and the durable slot is
\* without it, the slot never holds it again.
C15_DeletedIsTerminal ==
    /\ [](\A c \in Ctx : ~Resurrected(c))
    /\ [][(st.who # {} /\ Kept.id \notin ItemIds(Read(itemsSlot)))
             => Kept.id \notin ItemIds(Read(itemsSlot'))]_vars

\* The same of the collections in memory, in runs without a teardown.
DeletedIsTerminalWhileMounted ==
    (st.m = Cardinality({c \in Ctx : mounted[c]})) => \A c \in Ctx : ~Resurrected(c)

\* The same of the durable slot alone.
DeletedStaysOutOfSlot ==
    [][(st.who # {} /\ Kept.id \notin ItemIds(Read(itemsSlot)))
          => Kept.id \notin ItemIds(Read(itemsSlot'))]_vars

(***************************************************************************)
(* toggleComplete and the inline edit on any stored collection: the page   *)
(* loads with a collection of up to MaxItems items and the user toggles    *)
(* and edits them before any debounced write of the hook fires.            *)
(***************************************************************************)
NextEdit ==
    \/ \E quota \in BOOLEAN, qf \in BOOLEAN : HomeMount(quota, qf)
    \/ \E id \in Ids, quota \in BOOLEAN : toggleComplete(id, quota)
    \/ \E id \in Ids, quota \in BOOLEAN : startEdit(id, quota)
    \/ \E t \in Typed : TypeEdit(t)
    \/ \E quota \in BOOLEAN : saveEdit(quota)

SpecEdit == InitClear /\ [][NextEdit]_vars

\* C22: toggleComplete(id) changes only `completed` of the item with that
\* id and saveEdit only `title` of the item being edited: the collection
\* keeps its length and order, every item keeps its id and createdAt, and
\* every other item is as it was.
C22_OnlyTargetFieldChanges ==
    [][/\ Call("toggleComplete") =>
            /\ Len(items') = Len(items)
            /\ \A i \in DOMAIN items :
                   items'[i] = IF items[i].id = hs'.arg
                               THEN [items[i] EXCEPT !.completed = ~items[i].completed]
                               ELSE items[i]
       /\ Call("saveEdit") =>
            /\ Len(items') = Len(items)
            /\ \A i \in DOMAIN items :
                   /\ items'[i] = [items[i] EXCEPT !.title = items'[i].title]
                   /\ items[i].id # editingId => items'[i] = items[i]]_vars

\* saveEdit gave the second of three stored items the title typed, the others
\* keeping theirs.
C22_Witness ==
    /\ hs.op = "saveEdit" /\ Len(items) = 3
    /\ items[1].title = "a" /\ items[2].title = "b c" /\ items[3].title = "a"
    /\ items[2].completed /\ editingId = NoId

\* C23: in every state of the list view the edit focus is empty or the id
\* of an item of the collection.
C23_EditFocusIsAnItem ==
    mounted[Me] => (editingId = NoId \/ editingId \in ItemIds(items))

\* The same of the steps of clearCompleted alone, the handler the view
\* offers while an item is being edited.
ClearCompletedKeepsEditFocus ==
    [][Call("clearCompleted") =>
          (editingId' = NoId \/ editingId' \in ItemIds(items'))]_vars

============================================================================
